---- MODULE Spec2Model ----
(***************************************************************************)
(* Model of the generic API pipeline: the OAuth2 token manager             *)
(* (utils/token_manager.py), the API gateway (utils/api_client.py), the    *)
(* entity synchronizer (main.py) and the upsert store (utils/db_client.py).*)
(*                                                                         *)
(* Six specifications share the variables:                                 *)
(*   SpecToken   - arbitrary get_access_token calls as time advances       *)
(*   SpecRace    - two threads inside get_access_token, statement by       *)
(*                 statement                                               *)
(*   SpecCrash   - one caller inside get_access_token, statement by        *)
(*                 statement, with the process dying and starting again    *)
(*   Spec        - one run of main() over the configured endpoints         *)
(*   SpecUpsert  - repeated upsert_data calls against one table            *)
(*   SpecExtract - fetch_ids_for_entity on one list-discovery answer       *)
(* In SpecToken and Spec a call takes no time of the model's clock; time    *)
(* passes between calls.                                                   *)
(***************************************************************************)
EXTENDS Integers, Sequences, FiniteSets, TLC

VARIABLES
    now,             \* time.time(), in seconds
    token_cache,     \* token_manager.token_cache
    token_file,      \* token_config.json: the persisted tokenConfig.body
    srv_seq,         \* number of tokens the authorization server has issued
    token_requests,  \* history: the token requests sent, in order
    calls,           \* history: the get_access_token calls, in order
    callers,         \* the callers inside get_access_token, each with its locals
    cfg,             \* endpointconfig.json (apiEndpoints, tableMapping)
    ei,              \* main(): index of the endpoint being processed
    pc,              \* position inside main()/process_entity()
    ids,             \* process_entity(): the discovered identifiers
    ii,              \* process_entity(): index of the identifier in the loop
    response,        \* process_entity(): the payload about to be upserted
    elog,            \* history: what process_entity did for the current entity
    outcomes,        \* history: how each finished entity ended, in order
    db,              \* storage: one table (a sequence of rows) per entity
    ulog             \* history: the upsert_data calls, in order

tokenVars == <<now, token_cache, token_file, srv_seq, token_requests, calls,
               callers>>
runVars == <<cfg, ei, pc, ids, ii, response, elog, outcomes>>
dbVars == <<db, ulog>>
vars == <<now, token_cache, token_file, srv_seq, token_requests, calls, callers,
          cfg, ei, pc, ids, ii, response, elog, outcomes, db, ulog>>

----------------------------------------------------------------------------
(* Bounds of the model *)

MaxCalls == 3        \* get_access_token calls per behaviour of SpecToken
MaxTicks == 2        \* clock advances per behaviour of SpecToken
RunTicks == 1        \* clock advances per behaviour of Spec
TickStep == 60       \* seconds per clock advance
MaxUpserts == 2      \* upsert_data calls per behaviour of SpecUpsert
MaxList == 2         \* records per list-discovery answer in SpecExtract

----------------------------------------------------------------------------
(* utils/token_manager.py *)

TOKEN_EXPIRY_BUFFER == 60

\* Python's None for token_cache["access_token"]; issued tokens are 1, 2, ...
None == 0

\* token_cache = {"access_token": None, "expires_at": 0}
InitialTokenCache == [access_token |-> None, expires_at |-> 0]

\* What the authorization server may answer. fields is the set of keys of the
\* JSON body of a 200 answer; expires_in is read only when both access_token
\* and expires_in are there. An expires_in of 30 is below the buffer: the
\* token is never valid from the cache; one of 120 is valid for 60 seconds.
ExpiresIn == {30, 120}

TokenFields == {"access_token", "expires_in", "refresh_token"}

CompleteFieldSets == {F \in SUBSET TokenFields : {"access_token", "expires_in"} \subseteq F}

IncompleteFieldSets ==
    {{"expires_in", "refresh_token"}, {"access_token", "refresh_token"},
     {"expires_in"}, {"access_token"}}

TokenResponses ==
    {[status |-> 200, fields |-> F, expires_in |-> x] :
        F \in CompleteFieldSets, x \in ExpiresIn}
    \cup {[status |-> 200, fields |-> F, expires_in |-> 0] : F \in IncompleteFieldSets}
    \cup {[status |-> 401, fields |-> {}, expires_in |-> 0]}

\* load_token_config: the tokenConfig of the file as it is now
load_token_config(file) == file

\* Mutant of save_token_config: the rotated config is never written.
save_token_config_skipped(file, config) == file

\* save_token_config: the file is rewritten with the given config
save_token_config(file, config) == config

\* Mutant of fetch_new_token: access_token is cached as soon as the answer is
\* parsed, before expires_in is read.
fetch_new_token_caches_early(file, cache, t, resp, issued) ==
    LET config == load_token_config(file)
        sent == [refresh_token |-> config.refresh_token, at |-> t]
        rotated == [config EXCEPT !.refresh_token = issued]
        file2 == IF "refresh_token" \in resp.fields
                 THEN save_token_config(file, rotated)
                 ELSE file
    IN  IF resp.status # 200
        THEN [raised |-> TRUE, ret |-> None, sent |-> sent,
              file |-> file, cache |-> cache]
        ELSE IF "access_token" \notin resp.fields
        THEN [raised |-> TRUE, ret |-> None, sent |-> sent,
              file |-> file2, cache |-> cache]
        ELSE IF "expires_in" \notin resp.fields
        THEN [raised |-> TRUE, ret |-> None, sent |-> sent,
              file |-> file2, cache |-> [cache EXCEPT !.access_token = issued]]
        ELSE [raised |-> FALSE, ret |-> issued, sent |-> sent,
              file |-> file2,
              cache |-> [access_token |-> issued,
                         expires_at |-> t + resp.expires_in - TOKEN_EXPIRY_BUFFER]]

\* fetch_new_token, given the file, the cache, the time read at line 98, the
\* server's answer and the value the server issues with it. The result holds
\* the request sent, the file and the cache afterwards, and what is returned
\* or that it raised.
fetch_new_token(file, cache, t, resp, issued) ==
    LET config == load_token_config(file)
        sent == [refresh_token |-> config.refresh_token, at |-> t]
        rotated == [config EXCEPT !.refresh_token = issued]
        file2 == IF "refresh_token" \in resp.fields
                 THEN save_token_config(file, rotated)
                 ELSE file
    IN  IF resp.status # 200
        THEN [raised |-> TRUE, ret |-> None, sent |-> sent,
              file |-> file, cache |-> cache]
        ELSE IF "expires_in" \notin resp.fields \/ "access_token" \notin resp.fields
        THEN [raised |-> TRUE, ret |-> None, sent |-> sent,
              file |-> file2, cache |-> cache]
        ELSE [raised |-> FALSE, ret |-> issued, sent |-> sent,
              file |-> file2,
              cache |-> [access_token |-> issued,
                         expires_at |-> t + resp.expires_in - TOKEN_EXPIRY_BUFFER]]

\* Mutants of cache_valid: the expiry is ignored; the bound is inclusive.
cache_valid_ignores_expiry(cache, t) ==
    cache.access_token # None

cache_valid_inclusive(cache, t) ==
    cache.access_token # None /\ t <= cache.expires_at

\* get_access_token line 122: the cached token exists and is still valid
cache_valid(cache, t) ==
    cache.access_token # None /\ t < cache.expires_at

\* get_access_token at time t. requested says whether a token request went out.
get_access_token(file, cache, t, resp, issued) ==
    IF cache_valid(cache, t)
    THEN [raised |-> FALSE, ret |-> cache.access_token, requested |-> FALSE,
          sent |-> [refresh_token |-> 0, at |-> t],   \* nothing is sent
          file |-> file, cache |-> cache]
    ELSE LET f == fetch_new_token(file, cache, t, resp, issued)
         IN  [raised |-> f.raised, ret |-> f.ret, requested |-> TRUE,
              sent |-> f.sent, file |-> f.file, cache |-> f.cache]

\* The answers the server may give to a call: none is needed on a cache hit.
AnswersFor(cache, t) ==
    IF cache_valid(cache, t) THEN {[status |-> 200, fields |-> {}, expires_in |-> 0]}
    ELSE TokenResponses

----------------------------------------------------------------------------
(* JSON values. Every scalar is a string; Null is JSON null / Python None /  *)
(* SQL NULL. A payload is tagged with its Python type: a dict holds a         *)
(* function from keys to values, a list a sequence of dicts.                  *)

Null == "NULL"

Dict(d) == [type |-> "dict", v |-> d]
List(l) == [type |-> "list", v |-> l]

\* Mutant of truthy: every payload counts as non-empty.
truthy_always(data) == TRUE

\* Python truthiness of a payload: {} and [] are falsy
truthy(data) == DOMAIN data.v # {}

\* d.get(k, default)
dict_get(d, k, default) == IF k \in DOMAIN d THEN d[k] ELSE default

\* The records the remote API and the callers of upsert_data deal in.
Acme == [id |-> "1", name |-> "Acme"]
Apex == [id |-> "1", name |-> "Apex"]
Beta == [id |-> "2", key |-> "7"]
Anon == [name |-> "Zed"]

----------------------------------------------------------------------------
(* utils/db_client.py *)

\* excluded_cols = {"timestamp", "rowversion", "dateCreated"}
excluded_cols == {"timestamp", "rowversion", "dateCreated"}

\* Mutant of mapped_values: the excluded columns are not popped.
mapped_values_keeps_excluded(mapping, record) ==
    [col \in DOMAIN mapping |-> dict_get(record, mapping[col], Null)]

\* lines 81-86: the record projected through the mapping, excluded columns
\* popped; an absent source field gives None
mapped_values(mapping, record) ==
    LET all == [col \in DOMAIN mapping |-> dict_get(record, mapping[col], Null)]
        skipped_cols == {col \in DOMAIN all : col \in excluded_cols}
    IN  [col \in DOMAIN all \ skipped_cols |-> all[col]]

\* lines 92-111: the MERGE statement built for the projected row: its column
\* list, its update list and its parameter list. The parameters are the
\* values of the source columns, then of the updated columns, then of the
\* inserted columns, each kept here under the column it is bound to.
merge_statement(mv) ==
    [columns |-> DOMAIN mv,
     updates |-> DOMAIN mv \ {"id"},
     params |-> [source_params |-> mv,
                 update_params |-> [c \in DOMAIN mv \ {"id"} |-> mv[c]],
                 insert_params |-> mv],
     nparams |-> Cardinality(DOMAIN mv) + Cardinality(DOMAIN mv \ {"id"})
                   + Cardinality(DOMAIN mv)]

\* The statement text of lines 97-103 is valid SQL only if the source has an
\* id column (ON target.id = source.id) and the UPDATE SET list is not empty.
sql_valid(stmt) == "id" \in stmt.columns /\ stmt.updates # {}

\* MERGE ... ON target.id = source.id WHEN MATCHED THEN UPDATE SET updates
\* WHEN NOT MATCHED THEN INSERT: a NULL id equals nothing, itself included.
merged(table, mv) ==
    LET matched == {i \in DOMAIN table :
                       /\ mv.id # Null
                       /\ table[i].id # Null
                       /\ table[i].id = mv.id}
        updated(row) == [c \in DOMAIN row \cup (DOMAIN mv \ {"id"}) |->
                            IF c \in DOMAIN mv \ {"id"} THEN mv[c] ELSE row[c]]
    IN  IF matched # {}
        THEN [i \in DOMAIN table |-> IF i \in matched THEN updated(table[i]) ELSE table[i]]
        ELSE Append(table, mv)

\* Mutant of upsert_loop: the first rejected statement ends the loop.
RECURSIVE upsert_loop_aborts(_, _, _, _, _)
upsert_loop_aborts(mapping, records, i, fails, acc) ==
    IF i > Len(records) THEN acc
    ELSE LET mv == mapped_values(mapping, records[i])
             stmt == merge_statement(mv)
             ok == sql_valid(stmt) /\ i \notin fails
             next == [table |-> IF ok THEN merged(acc.table, mv) ELSE acc.table,
                      stmts |-> Append(acc.stmts,
                                  [columns |-> stmt.columns, updates |-> stmt.updates,
                                   params |-> stmt.params,
                                   nparams |-> stmt.nparams, row |-> mv, ok |-> ok])]
         IN  IF ok THEN upsert_loop_aborts(mapping, records, i + 1, fails, next)
             ELSE next

\* lines 79-122: the loop over the records from index i on. fails is the set
\* of indices whose cursor.execute the server rejects; an invalid statement is
\* rejected always. A rejected statement is logged and the loop goes on.
RECURSIVE upsert_loop(_, _, _, _, _)
upsert_loop(mapping, records, i, fails, acc) ==
    IF i > Len(records) THEN acc
    ELSE LET mv == mapped_values(mapping, records[i])
             stmt == merge_statement(mv)
             ok == sql_valid(stmt) /\ i \notin fails
             next == [table |-> IF ok THEN merged(acc.table, mv) ELSE acc.table,
                      stmts |-> Append(acc.stmts,
                                  [columns |-> stmt.columns, updates |-> stmt.updates,
                                   params |-> stmt.params,
                                   nparams |-> stmt.nparams, row |-> mv, ok |-> ok])]
         IN  upsert_loop(mapping, records, i + 1, fails, next)

\* What the database server does during one upsert_data call: whether the
\* connection (line 67), the cursor (line 68) and the commit (line 125)
\* succeed, and which statements it rejects (line 115).
DbEnvs(n) ==
    {[conn_ok |-> TRUE, cursor_ok |-> TRUE, fails |-> F, commit_ok |-> TRUE] :
        F \in SUBSET (1..n)}
    \cup {[conn_ok |-> FALSE, cursor_ok |-> TRUE, fails |-> {}, commit_ok |-> TRUE],
          [conn_ok |-> TRUE, cursor_ok |-> FALSE, fails |-> {}, commit_ok |-> TRUE],
          [conn_ok |-> TRUE, cursor_ok |-> TRUE, fails |-> {}, commit_ok |-> FALSE]}

\* The records of a payload: a single dict is wrapped in a list (lines 71-72)
records_of(data) == IF data.type = "dict" THEN <<data.v>> ELSE data.v

\* Mutant of upsert_data: the connection is created before the mapping is
\* looked at.
upsert_data_connects_first(tableMapping, entity, data, table, env) ==
    LET mapping == dict_get(tableMapping, entity, <<>>)
        records == records_of(data)
        done == upsert_loop(mapping, records, 1, env.fails,
                            [table |-> table, stmts |-> <<>>])
    IN  IF ~env.conn_ok
        THEN [raised |-> "connect", table |-> table, stmts |-> <<>>,
              opened |-> FALSE, closed |-> FALSE]
        ELSE IF DOMAIN mapping = {}
        THEN [raised |-> "ValueError", table |-> table, stmts |-> <<>>,
              opened |-> TRUE, closed |-> FALSE]
        ELSE IF ~env.cursor_ok
        THEN [raised |-> "cursor", table |-> table, stmts |-> <<>>,
              opened |-> TRUE, closed |-> FALSE]
        ELSE IF ~env.commit_ok
        THEN [raised |-> "commit", table |-> table, stmts |-> done.stmts,
              opened |-> TRUE, closed |-> FALSE]
        ELSE [raised |-> "none", table |-> done.table, stmts |-> done.stmts,
              opened |-> TRUE, closed |-> TRUE]

\* upsert_data(entity, data) against the entity's table. opened/closed say
\* whether a connection was created and whether conn.close() was called. A
\* call that raises after connecting leaves through the exception and never
\* reaches line 127; what was executed and not committed is not in the table.
upsert_data(tableMapping, entity, data, table, env) ==
    LET mapping == dict_get(tableMapping, entity, <<>>)
        records == records_of(data)
        done == upsert_loop(mapping, records, 1, env.fails,
                            [table |-> table, stmts |-> <<>>])
    IN  IF DOMAIN mapping = {}
        THEN [raised |-> "ValueError", table |-> table, stmts |-> <<>>,
              opened |-> FALSE, closed |-> FALSE]
        ELSE IF ~env.conn_ok
        THEN [raised |-> "connect", table |-> table, stmts |-> <<>>,
              opened |-> FALSE, closed |-> FALSE]
        ELSE IF ~env.cursor_ok
        THEN [raised |-> "cursor", table |-> table, stmts |-> <<>>,
              opened |-> TRUE, closed |-> FALSE]
        ELSE IF ~env.commit_ok
        THEN [raised |-> "commit", table |-> table, stmts |-> done.stmts,
              opened |-> TRUE, closed |-> FALSE]
        ELSE [raised |-> "none", table |-> done.table, stmts |-> done.stmts,
              opened |-> TRUE, closed |-> TRUE]

----------------------------------------------------------------------------
(* utils/api_client.py. A URL template is the sequence of its "/"-separated  *)
(* segments; a segment is a literal or a placeholder.                        *)

\* The placeholders a template may hold, and the keyword each one needs.
PlaceholderName == ("{id}" :> "id") @@ ("{bid}" :> "bid")

Placeholders(template) ==
    {PlaceholderName[template[i]] :
        i \in {j \in DOMAIN template : template[j] \in DOMAIN PlaceholderName}}

\* Mutant of str_format: a placeholder without a value is left in the URL.
str_format_lenient(template, kwargs) ==
    [raised |-> FALSE,
     url |-> [i \in DOMAIN template |->
                IF template[i] \in DOMAIN PlaceholderName
                   /\ PlaceholderName[template[i]] \in DOMAIN kwargs
                THEN kwargs[PlaceholderName[template[i]]]
                ELSE template[i]]]

\* api_template.format(**kwargs), lines 55-62: KeyError when a placeholder has
\* no value among kwargs; values without a placeholder are ignored.
str_format(template, kwargs) ==
    IF Placeholders(template) \ DOMAIN kwargs # {}
    THEN [raised |-> TRUE, url |-> <<>>]
    ELSE [raised |-> FALSE,
          url |-> [i \in DOMAIN template |->
                     IF template[i] \in DOMAIN PlaceholderName
                     THEN kwargs[PlaceholderName[template[i]]]
                     ELSE template[i]]]

\* get_endpoint: the first endpoint with that entity, or None (here <<>>)
get_endpoint(apiEndpoints, entity) ==
    LET hits == {i \in DOMAIN apiEndpoints : apiEndpoints[i].entity = entity}
    IN  IF hits = {} THEN <<>>
        ELSE apiEndpoints[CHOOSE i \in hits : \A j \in hits : i <= j]

\* What the remote API may answer to a resource request.
HttpError == [status |-> 500, json |-> FALSE, data |-> Dict(<<>>)]
HttpNotJson == [status |-> 200, json |-> FALSE, data |-> Dict(<<>>)]
HttpOk(data) == [status |-> 200, json |-> TRUE, data |-> data]

\* call_api(entity, api_override, **kwargs). tok is the outcome of the
\* get_access_token call of line 43, http the remote API's answer should a
\* request go out. requests holds the resource request issued, if any.
call_api(apiEndpoints, entity, api_override, kwargs, tok, http) ==
    LET endpoint == get_endpoint(apiEndpoints, entity)
        api_template == IF api_override # <<>> THEN api_override ELSE endpoint.api
        f == str_format(api_template, kwargs)
        request == [method |-> endpoint.method, url |-> f.url, bearer |-> tok.ret]
    IN  IF tok.raised
        THEN [raised |-> "token", data |-> Dict(<<>>), requests |-> <<>>]
        ELSE IF DOMAIN endpoint = {}
        THEN [raised |-> "ValueError", data |-> Dict(<<>>), requests |-> <<>>]
        ELSE IF f.raised
        THEN [raised |-> "KeyError", data |-> Dict(<<>>), requests |-> <<>>]
        ELSE IF http.status # 200
        THEN [raised |-> "http", data |-> Dict(<<>>), requests |-> <<request>>]
        ELSE IF ~http.json
        THEN [raised |-> "json", data |-> Dict(<<>>), requests |-> <<request>>]
        ELSE [raised |-> "none", data |-> http.data, requests |-> <<request>>]

----------------------------------------------------------------------------
(* main.py *)

\* Mutant of requires_id: any placeholder counts.
requires_id_any_placeholder(entity_config) ==
    Placeholders(entity_config.api) # {}

\* line 73: "{id}" in entity_config["api"]
requires_id(entity_config) ==
    \E i \in DOMAIN entity_config.api : entity_config.api[i] = "{id}"

\* line 27: entity_config["api"].split("{id}")[0].rstrip("/")
base_api(api) ==
    LET at == {i \in DOMAIN api : api[i] = "{id}"}
    IN  IF at = {} THEN api
        ELSE SubSeq(api, 1, (CHOOSE i \in at : \A j \in at : i <= j) - 1)

\* line 30: entity_config.get("parentKey", "id")
parent_key_of(entity_config) == dict_get(entity_config, "parentKey", "id")

\* Mutant of ids_in: a record without the field gives a null identifier.
RECURSIVE ids_in_keeps_missing(_, _)
ids_in_keeps_missing(records, parent_key) ==
    IF records = <<>> THEN <<>>
    ELSE <<dict_get(Head(records), parent_key, Null)>>
            \o ids_in_keeps_missing(Tail(records), parent_key)

\* line 49: [record[parent_key] for record in data if parent_key in record]
RECURSIVE ids_in(_, _)
ids_in(records, parent_key) ==
    IF records = <<>> THEN <<>>
    ELSE (IF parent_key \in DOMAIN Head(records)
          THEN <<Head(records)[parent_key]>> ELSE <<>>)
            \o ids_in(Tail(records), parent_key)

\* lines 45-46: {"items": [...]} is replaced by its items; a list is used as
\* it is. Iterating any other dict yields its keys, which are strings: the
\* comprehension of line 49 finds no identifier in them or raises TypeError,
\* and both end in [].
unwrapped(data) ==
    IF data.type = "dict" /\ "items" \in DOMAIN data.v THEN data.v.items
    ELSE IF data.type = "list" THEN data.v
    ELSE <<>>

\* lines 39-53: the identifiers of a list-discovery answer
extract_ids(data, parent_key) ==
    IF ~truthy(data) THEN <<>>
    ELSE ids_in(unwrapped(data), parent_key)

\* fetch_ids_for_entity after its call_api returned or raised (result r)
fetch_ids_for_entity(entity_config, r) ==
    IF r.raised # "none" THEN <<>>
    ELSE extract_ids(r.data, parent_key_of(entity_config))

----------------------------------------------------------------------------
(* SpecToken: callers of get_access_token (api_response.py, call_api) *)

IdleRun ==
    /\ cfg = [apiEndpoints |-> <<>>, tableMapping |-> <<>>]
    /\ ei = 1
    /\ pc = "idle"
    /\ ids = <<>>
    /\ ii = 1
    /\ response = <<>>
    /\ elog = <<>>
    /\ outcomes = <<>>

InitToken ==
    /\ now = 1
    /\ token_cache = InitialTokenCache
    /\ token_file = [refresh_token |-> 0]   \* the refresh token configured at start
    /\ srv_seq = 0
    /\ token_requests = <<>>
    /\ calls = <<>>
    /\ callers = <<>>     \* the call is taken as one step

InitDb ==
    /\ db = <<>>
    /\ ulog = <<>>

TokenInit == InitToken /\ IdleRun /\ InitDb

\* Mutant of Current: main() walks the endpoints from the last to the first.
Current_reversed == cfg.apiEndpoints[Len(cfg.apiEndpoints) + 1 - ei]

\* main() line 118: the endpoint the loop is at.
Current == cfg.apiEndpoints[ei]

\* What a get_access_token call with outcome g leaves in the token manager
\* and in the histories.
TokenStep(resp, g) ==
    /\ token_cache' = g.cache
    /\ token_file' = g.file
    /\ srv_seq' = IF g.requested THEN srv_seq + 1 ELSE srv_seq
    /\ token_requests' =
         IF g.requested
         THEN Append(token_requests,
                     [sent |-> g.sent.refresh_token, at |-> now, resp |-> resp,
                      issued |-> srv_seq + 1, returned |-> ~g.raised,
                      file_after |-> g.file.refresh_token])
         ELSE token_requests
    /\ calls' = Append(calls,
         [at |-> now, requested |-> g.requested, raised |-> g.raised,
          ret |-> g.ret, nreq |-> Len(token_requests') - Len(token_requests),
          cache_before |-> token_cache, cache_after |-> g.cache,
          entity |-> IF ei \in DOMAIN cfg.apiEndpoints
                     THEN Current.entity ELSE Null])
    /\ now' = now
    /\ callers' = callers

\* One call of get_access_token, with the server's answer if it asks for one.
GetAccessTokenCall ==
    /\ Len(calls) < MaxCalls
    /\ \E resp \in AnswersFor(token_cache, now) :
         TokenStep(resp, get_access_token(token_file, token_cache, now, resp,
                                          srv_seq + 1))
    /\ UNCHANGED <<runVars, dbVars>>

\* Time passes. Only get_access_token reads the clock (line 119), so in a run
\* the clock is advanced where a call is about to be made.
Tick ==
    /\ pc \in {"idle", "list", "detail", "single"}
    /\ now < 1 + (IF pc = "idle" THEN MaxTicks ELSE RunTicks) * TickStep
    /\ now' = now + TickStep
    /\ UNCHANGED <<token_cache, token_file, srv_seq, token_requests, calls, callers,
                   runVars, dbVars>>

TokenNext == GetAccessTokenCall \/ Tick

SpecToken == TokenInit /\ [][TokenNext]_vars

----------------------------------------------------------------------------
(* SpecRace and SpecCrash: get_access_token statement by statement. Each     *)
(* caller has its position and the locals of fetch_new_token; the cache, the  *)
(* file and the authorization server are shared. The module has no lock.      *)

\* Calls of get_access_token per caller.
CallerCalls == 2

\* token_config.json right after open(TOKEN_FILE, "w"): no bytes
Truncated == <<>>

\* json.load in load_token_config raises on a file without a document
file_parses(file) == file # Truncated

\* The authorization server's answers in these specifications: a token, a
\* token with a rotated refresh_token, a rotating answer without access_token,
\* a refusal.
StepTokenResponses ==
    {[status |-> 200, fields |-> {"access_token", "expires_in"}, expires_in |-> 120],
     [status |-> 200, fields |-> TokenFields, expires_in |-> 30],
     [status |-> 200, fields |-> {"expires_in", "refresh_token"}, expires_in |-> 0],
     [status |-> 401, fields |-> {}, expires_in |-> 0]}

IdleCaller ==
    [pc |-> "idle", config |-> [refresh_token |-> 0],
     resp |-> [status |-> 0, fields |-> {}, expires_in |-> 0],
     issued |-> 0, expires_at |-> 0, ncalls |-> 0]

StepInit(ids_of_callers) ==
    /\ now = 1
    /\ token_cache = InitialTokenCache
    /\ token_file = [refresh_token |-> 0]
    /\ srv_seq = 0
    /\ token_requests = <<>>
    /\ calls = <<>>
    /\ callers = [c \in ids_of_callers |-> IdleCaller]
    /\ IdleRun /\ InitDb

\* The call of caller c ends: it returns ret, or raises for the reason why.
Ended(c, requested, why, ret) ==
    /\ calls' = Append(calls, [at |-> now, by |-> c, requested |-> requested,
                               raised |-> why # "none", why |-> why, ret |-> ret])
    /\ callers' = [callers EXCEPT ![c].pc = "idle", ![c].ncalls = @ + 1]

\* get_access_token lines 119-123: the time is read, the cache looked at, and
\* the cached token returned if it is valid
CallerCheck ==
    \E c \in DOMAIN callers :
        /\ callers[c].pc = "idle"
        /\ callers[c].ncalls < CallerCalls
        /\ IF cache_valid(token_cache, now)
           THEN Ended(c, FALSE, "none", token_cache.access_token)
           ELSE /\ callers' = [callers EXCEPT ![c].pc = "load"]
                /\ calls' = calls
        /\ UNCHANGED <<now, token_cache, token_file, srv_seq, token_requests,
                       runVars, dbVars>>

\* fetch_new_token lines 75-82: the config is loaded from the file and the
\* token request sent with its refresh_token
CallerPost ==
    \E c \in DOMAIN callers :
        /\ callers[c].pc = "load"
        /\ IF ~file_parses(token_file)
           THEN /\ Ended(c, FALSE, "config", None)
                /\ token_requests' = token_requests
           ELSE /\ callers' = [callers EXCEPT ![c].pc = "inflight",
                                              ![c].config = load_token_config(token_file)]
                /\ token_requests' = Append(token_requests,
                      [sent |-> load_token_config(token_file).refresh_token,
                       at |-> now, by |-> c])
                /\ calls' = calls
        /\ UNCHANGED <<now, token_cache, token_file, srv_seq, runVars, dbVars>>

\* fetch_new_token lines 77-90: the server's answer arrives; a non-200 answer
\* raises, one with a refresh_token goes on to save_token_config
CallerAnswer ==
    \E c \in DOMAIN callers, resp \in StepTokenResponses :
        /\ callers[c].pc = "inflight"
        /\ srv_seq' = srv_seq + 1
        /\ IF resp.status # 200
           THEN Ended(c, TRUE, "status", None)
           ELSE /\ callers' = [callers EXCEPT
                                 ![c].pc = IF "refresh_token" \in resp.fields
                                           THEN "save" ELSE "cache",
                                 ![c].resp = resp,
                                 ![c].issued = srv_seq + 1]
                /\ calls' = calls
        /\ UNCHANGED <<now, token_cache, token_file, token_requests, runVars, dbVars>>

\* save_token_config line 57: open(TOKEN_FILE, "w") truncates the file
CallerOpen ==
    \E c \in DOMAIN callers :
        /\ callers[c].pc = "save"
        /\ token_file' = Truncated
        /\ callers' = [callers EXCEPT ![c].pc = "dump"]
        /\ UNCHANGED <<now, token_cache, srv_seq, token_requests, calls,
                       runVars, dbVars>>

\* save_token_config line 58 and the end of the with block: the document with
\* the new refresh_token is written out and the file closed
CallerDump ==
    \E c \in DOMAIN callers :
        /\ callers[c].pc = "dump"
        /\ token_file' = save_token_config(token_file,
                            [callers[c].config EXCEPT !.refresh_token = callers[c].issued])
        /\ callers' = [callers EXCEPT ![c].pc = "cache"]
        /\ UNCHANGED <<now, token_cache, srv_seq, token_requests, calls,
                       runVars, dbVars>>

\* fetch_new_token lines 97-101: expires_in is read (KeyError without it),
\* expires_at computed from the time now, access_token read (KeyError without
\* it) and written to the cache
CallerCacheToken ==
    \E c \in DOMAIN callers :
        /\ callers[c].pc = "cache"
        /\ IF "expires_in" \notin callers[c].resp.fields
              \/ "access_token" \notin callers[c].resp.fields
           THEN /\ Ended(c, TRUE, "fields", None)
                /\ token_cache' = token_cache
           ELSE /\ callers' = [callers EXCEPT
                                 ![c].pc = "expiry",
                                 ![c].expires_at = now + callers[c].resp.expires_in
                                                     - TOKEN_EXPIRY_BUFFER]
                /\ token_cache' = [token_cache EXCEPT !.access_token = callers[c].issued]
                /\ calls' = calls
        /\ UNCHANGED <<now, token_file, srv_seq, token_requests, runVars, dbVars>>

\* fetch_new_token lines 102-104: expires_at is written to the cache and the
\* cached access_token returned
CallerCacheExpiry ==
    \E c \in DOMAIN callers :
        /\ callers[c].pc = "expiry"
        /\ token_cache' = [token_cache EXCEPT !.expires_at = callers[c].expires_at]
        /\ Ended(c, TRUE, "none", token_cache.access_token)
        /\ UNCHANGED <<now, token_file, srv_seq, token_requests, runVars, dbVars>>

\* The process dies while a caller is inside the call: the callers stop where
\* they are; the file stays as it is on disk.
Crash ==
    /\ \E c \in DOMAIN callers : callers[c].pc \notin {"idle", "crashed"}
    /\ callers' = [c \in DOMAIN callers |->
                     [callers[c] EXCEPT !.pc = "crashed", !.ncalls = @ + 1]]
    /\ UNCHANGED <<now, token_cache, token_file, srv_seq, token_requests, calls,
                   runVars, dbVars>>

\* The pipeline is started again: token_cache is the module's initial one
\* (lines 26-29), the file is what the dead process left.
Restart ==
    /\ \E c \in DOMAIN callers : callers[c].pc = "crashed"
    /\ callers' = [c \in DOMAIN callers |->
                     [IdleCaller EXCEPT !.ncalls = callers[c].ncalls]]
    /\ token_cache' = InitialTokenCache
    /\ UNCHANGED <<now, token_file, srv_seq, token_requests, calls, runVars, dbVars>>

CallerStep ==
    \/ CallerCheck
    \/ CallerPost
    \/ CallerAnswer
    \/ CallerOpen
    \/ CallerDump
    \/ CallerCacheToken
    \/ CallerCacheExpiry

RaceInit == StepInit({1, 2})

RaceNext == CallerStep

SpecRace == RaceInit /\ [][RaceNext]_vars

CrashInit == StepInit({1})

CrashNext == CallerStep \/ Crash \/ Restart

SpecCrash == CrashInit /\ [][CrashNext]_vars

----------------------------------------------------------------------------
(* SpecUpsert: upsert_data called again and again on the table of "business" *)

\* tableMapping entries tried for "business"; "ghost" has none.
TableMappings ==
    {[id |-> "id", name |-> "name"],
     [id |-> "id", name |-> "name", timestamp |-> "ts", rowversion |-> "rv",
      dateCreated |-> "created"],
     [id |-> "key", name |-> "name"],
     [id |-> "id"],
     [name |-> "name"]}

UpsertInputs ==
    {Dict(Acme), Dict(Apex), Dict(Beta), Dict(Anon),
     List(<<Acme, Beta>>), List(<<Anon, Acme>>), List(<<Acme, Apex>>), List(<<>>)}

\* The calls tried: every payload for "business", one for "ghost".
UpsertArgs == ({"business"} \X UpsertInputs) \cup {<<"ghost", Dict(Acme)>>}

UpsertInit ==
    /\ InitToken
    /\ \E m \in TableMappings :
         cfg = [apiEndpoints |-> <<>>, tableMapping |-> [business |-> m]]
    /\ ei = 1 /\ pc = "idle" /\ ids = <<>> /\ ii = 1 /\ response = <<>>
    /\ elog = <<>> /\ outcomes = <<>>
    /\ db = [business |-> <<>>]
    /\ ulog = <<>>

\* One call of upsert_data with what the database server does during it.
UpsertCall ==
    /\ Len(ulog) < MaxUpserts
    /\ \E args \in UpsertArgs :
       \E env \in DbEnvs(Len(records_of(args[2]))) :
         LET entity == args[1]
             data == args[2]
             table == dict_get(db, entity, <<>>)
             u == upsert_data(cfg.tableMapping, entity, data, table, env)
         IN  /\ db' = IF entity \in DOMAIN db
                      THEN [db EXCEPT ![entity] = u.table] ELSE db
             /\ ulog' = Append(ulog,
                  [entity |-> entity, data |-> data, env |-> env,
                   raised |-> u.raised,
                   stmts |-> u.stmts, opened |-> u.opened, closed |-> u.closed,
                   before |-> table, after |-> u.table])
    /\ UNCHANGED <<tokenVars, runVars>>

UpsertNext == UpsertCall

SpecUpsert == UpsertInit /\ [][UpsertNext]_vars

----------------------------------------------------------------------------
(* SpecExtract: fetch_ids_for_entity applied to a list-discovery answer *)

RECURSIVE SeqsUpTo(_, _)
SeqsUpTo(S, n) ==
    IF n = 0 THEN {<<>>}
    ELSE LET shorter == SeqsUpTo(S, n - 1)
         IN  shorter \cup {Append(q, x) : q \in {r \in shorter : Len(r) = n - 1}, x \in S}

ListPayloads ==
    {List(q) : q \in SeqsUpTo({Acme, Apex, Beta, Anon}, MaxList)}
    \cup {Dict([items |-> q]) : q \in SeqsUpTo({Acme, Apex, Beta, Anon}, MaxList)}
    \cup {Dict(Acme), Dict(Beta), Dict(Anon), Dict(<<>>)}

ExtractInit ==
    /\ InitToken /\ InitDb
    /\ \E e \in {[entity |-> "business", api |-> <<"v2", "business", "{id}">>,
                  method |-> "GET"],
                 [entity |-> "business", api |-> <<"v2", "business", "{id}">>,
                  method |-> "GET", parentKey |-> "key"]} :
         cfg = [apiEndpoints |-> <<e>>, tableMapping |-> <<>>]
    /\ response \in ListPayloads
    /\ ei = 1 /\ pc = "answered" /\ ids = <<>> /\ ii = 1
    /\ elog = <<>> /\ outcomes = <<>>

\* fetch_ids_for_entity on the answer its call_api returned
ExtractIds ==
    /\ pc = "answered"
    /\ ids' = fetch_ids_for_entity(cfg.apiEndpoints[ei],
                  [raised |-> "none", data |-> response, requests |-> <<>>])
    /\ pc' = "extracted"
    /\ UNCHANGED <<tokenVars, dbVars, cfg, ei, ii, response, elog, outcomes>>

ExtractNext == ExtractIds

SpecExtract == ExtractInit /\ [][ExtractNext]_vars

----------------------------------------------------------------------------
(* Spec: one run of main() *)

EpBusiness == [entity |-> "business", method |-> "GET",
               api |-> <<"v2", "business", "{id}">>]
EpInvoice == [entity |-> "invoice", method |-> "GET",
              api |-> <<"v2", "invoice">>]
EpEmployee == [entity |-> "employee", method |-> "GET",
               api |-> <<"v2", "business", "{bid}", "employee">>]
EpPaygroup == [entity |-> "paygroup", method |-> "GET", parentKey |-> "key",
               api |-> <<"v2", "{bid}", "paygroup", "{id}">>]
EpGhost == [entity |-> "ghost", method |-> "GET", parentKey |-> "key",
            api |-> <<"v2", "ghost", "{id}">>]

EpRoot == [entity |-> "root", method |-> "GET", api |-> <<"{id}">>]

Endpoints == {EpBusiness, EpInvoice, EpEmployee, EpPaygroup, EpGhost, EpRoot}

\* Two endpoints with distinct entities; "ghost" has no table mapping.
RunConfigs ==
    {[apiEndpoints |-> p,
      tableMapping |-> [e \in {"business", "invoice", "employee", "paygroup", "root"} |->
                          [id |-> "id", name |-> "name"]]] :
        p \in {q \in Endpoints \X Endpoints : q[1] # q[2]}}

\* The authorization server's answers during a run: a token good until the
\* clock advances, a rotated one that is expired when next looked at, a refusal.
RunTokenResponses ==
    {[status |-> 200, fields |-> {"access_token", "expires_in"}, expires_in |-> 120],
     [status |-> 200, fields |-> TokenFields, expires_in |-> 30],
     [status |-> 401, fields |-> {}, expires_in |-> 0]}

RunAnswersFor(cache, t) ==
    IF cache_valid(cache, t) THEN {[status |-> 200, fields |-> {}, expires_in |-> 0]}
    ELSE RunTokenResponses

\* The remote API's answers during a run.
ListAnswers ==
    {HttpError, HttpNotJson, HttpOk(List(<<>>)), HttpOk(List(<<Acme, Beta>>)),
     HttpOk(Dict([items |-> <<Anon, Acme>>])), HttpOk(Dict(Acme))}

DetailAnswers ==
    {HttpError, HttpNotJson, HttpOk(Dict(<<>>)), HttpOk(Dict(Acme)),
     HttpOk(List(<<Apex, Anon>>))}

\* What the database server does during an upsert_data call of a run: a
\* cursor failure ends the call as a connection failure does and is left to
\* SpecUpsert.
RunDbEnvs(n) == {e \in DbEnvs(n) : e.fails \subseteq {1} /\ e.cursor_ok}

RunInit ==
    /\ InitToken
    /\ cfg \in RunConfigs
    /\ ei = 1 /\ pc = "detect" /\ ids = <<>> /\ ii = 1
    /\ response = Dict(<<>>)
    /\ elog = <<>> /\ outcomes = <<>>
    /\ db = [e \in {"business", "invoice", "employee", "paygroup", "ghost", "root"}
                |-> <<>>]
    /\ ulog = <<>>

\* What one call_api invocation leaves in the history.
CallEvent(op, pid, override, kwargs, tok, r, found) ==
    [op |-> op, entity |-> Current.entity, pid |-> pid, override |-> override,
     kwargs |-> kwargs, raised |-> r.raised, opened |-> FALSE, closed |-> FALSE,
     nstmts |-> 0, treq |-> IF tok.requested THEN 1 ELSE 0,
     nreq |-> Len(r.requests), data |-> r.data, found |-> found,
     valid_before |-> cache_valid(token_cache, now)]

\* Mutant of after_id: a failure ends the loop.
after_id_stops_on_failure(i, n, failed) ==
    IF i < n /\ ~failed THEN [pc |-> "detail", ii |-> i + 1]
    ELSE [pc |-> "return", ii |-> i]

\* Mutant of after_id: an identifier whose fetch or upsert failed is tried again.
after_id_retries(i, n, failed) ==
    IF failed THEN [pc |-> "detail", ii |-> i]
    ELSE IF i < n THEN [pc |-> "detail", ii |-> i + 1]
    ELSE [pc |-> "return", ii |-> i]

\* lines 85-91: what follows identifier i of n, whether or not its fetch or
\* its upsert raised: the except clause logs and the loop goes on.
after_id(i, n, failed) ==
    IF i < n THEN [pc |-> "detail", ii |-> i + 1]
    ELSE [pc |-> "return", ii |-> i]

\* Mutant of after_discovery: an empty discovery is tried again.
after_discovery_retries(found) == IF found = <<>> THEN "list" ELSE "detail"

\* lines 79-82: no identifiers, no detail calls: process_entity returns
after_discovery(found) == IF found = <<>> THEN "return" ELSE "detail"

\* process_entity line 73
Detect ==
    /\ pc = "detect"
    /\ pc' = IF requires_id(Current) THEN "list" ELSE "single"
    /\ UNCHANGED <<tokenVars, dbVars, cfg, ei, ids, ii, response, elog, outcomes>>

\* process_entity lines 77-82: fetch_ids_for_entity, then skip if no ids
ListDiscovery ==
    /\ pc = "list"
    /\ \E resp \in RunAnswersFor(token_cache, now), http \in ListAnswers :
         LET tok == get_access_token(token_file, token_cache, now, resp, srv_seq + 1)
             override == base_api(Current.api)
             r == call_api(cfg.apiEndpoints, Current.entity, override, <<>>, tok, http)
             found == fetch_ids_for_entity(Current, r)
         IN  /\ TokenStep(resp, tok)
             /\ elog' = Append(elog,
                   CallEvent("list", Null, override, <<>>, tok, r, found))
             /\ ids' = found
             /\ ii' = 1
             /\ pc' = after_discovery(found)
    /\ UNCHANGED <<dbVars, cfg, ei, response, outcomes>>

\* process_entity lines 85-88: the detail fetch of identifier ids[ii]
DetailFetch ==
    /\ pc = "detail"
    /\ \E resp \in RunAnswersFor(token_cache, now), http \in DetailAnswers :
         LET tok == get_access_token(token_file, token_cache, now, resp, srv_seq + 1)
             kwargs == [id |-> ids[ii]]
             r == call_api(cfg.apiEndpoints, Current.entity, <<>>, kwargs, tok, http)
             next == after_id(ii, Len(ids), r.raised # "none")
         IN  /\ TokenStep(resp, tok)
             /\ elog' = Append(elog,
                   CallEvent("detail", ids[ii], <<>>, kwargs, tok, r, <<>>))
             /\ IF r.raised = "none" /\ truthy(r.data)
                THEN /\ response' = r.data
                     /\ pc' = "upsert"
                     /\ ii' = ii
                ELSE /\ response' = response
                     /\ pc' = next.pc
                     /\ ii' = next.ii
    /\ UNCHANGED <<dbVars, cfg, ei, ids, outcomes>>

\* process_entity lines 95-97: the single fetch of an endpoint without {id}
SingleFetch ==
    /\ pc = "single"
    /\ \E resp \in RunAnswersFor(token_cache, now), http \in DetailAnswers :
         LET tok == get_access_token(token_file, token_cache, now, resp, srv_seq + 1)
             r == call_api(cfg.apiEndpoints, Current.entity, <<>>, <<>>, tok, http)
         IN  /\ TokenStep(resp, tok)
             /\ elog' = Append(elog,
                   CallEvent("single", Null, <<>>, <<>>, tok, r, <<>>))
             /\ IF r.raised = "none" /\ truthy(r.data)
                THEN response' = r.data /\ pc' = "upsert"
                ELSE response' = response /\ pc' = "return"
    /\ UNCHANGED <<dbVars, cfg, ei, ids, ii, outcomes>>

\* process_entity lines 89 and 99: upsert_data on the payload just fetched;
\* what it raises is caught at lines 90 and 100.
Upsert ==
    /\ pc = "upsert"
    /\ \E env \in RunDbEnvs(Len(records_of(response))) :
         LET u == upsert_data(cfg.tableMapping, Current.entity, response,
                              db[Current.entity], env)
             next == IF requires_id(Current)
                     THEN after_id(ii, Len(ids), u.raised # "none")
                     ELSE [pc |-> "return", ii |-> ii]
         IN  /\ db' = [db EXCEPT ![Current.entity] = u.table]
             /\ elog' = Append(elog,
                   [op |-> "upsert", entity |-> Current.entity,
                    pid |-> IF requires_id(Current) THEN ids[ii] ELSE Null,
                    override |-> <<>>, kwargs |-> <<>>, raised |-> u.raised,
                    opened |-> u.opened, closed |-> u.closed,
                    nstmts |-> Len(u.stmts), treq |-> 0, nreq |-> 0, data |-> response, found |-> <<>>,
                    valid_before |-> FALSE])   \* no token is asked for
             /\ pc' = next.pc
             /\ ii' = next.ii
    /\ response' = Dict(<<>>)
    /\ UNCHANGED <<tokenVars, ulog, cfg, ei, ids, outcomes>>

\* How an entity ended, from its history.
Outcome(entity_config, log) ==
    [entity |-> entity_config.entity,
     kind |-> IF ~requires_id(entity_config) THEN "single"
              ELSE IF \E k \in DOMAIN log : log[k].op = "detail" THEN "looped"
              ELSE "skipped",
     authfail |-> \E k \in DOMAIN log : log[k].raised = "token",
     nmapfail |-> Cardinality({k \in DOMAIN log : log[k].raised = "ValueError"
                                                   /\ log[k].op = "upsert"}),
     ncalls |-> Cardinality({k \in DOMAIN log : log[k].op # "upsert"})]

\* main() lines 118-119: process_entity returned; on to the next endpoint
MainLoop ==
    /\ pc = "return"
    /\ outcomes' = Append(outcomes, Outcome(Current, elog))
    /\ ei' = ei + 1
    /\ pc' = IF ei + 1 <= Len(cfg.apiEndpoints) THEN "detect" ELSE "done"
    /\ elog' = <<>>
    /\ ids' = <<>>
    /\ ii' = 1
    /\ UNCHANGED <<tokenVars, dbVars, cfg, response>>

Next ==
    \/ Detect
    \/ ListDiscovery
    \/ DetailFetch
    \/ SingleFetch
    \/ Upsert
    \/ MainLoop
    \/ Tick

Spec == RunInit /\ [][Next]_vars

----------------------------------------------------------------------------
(* Claims about the token manager, checked under SpecToken *)

\* Call i obtained a token from the server and cached it.
Fetched(i) == calls[i].requested /\ ~calls[i].raised

\* Calls i+1 .. j all happen inside the window opened by call i.
InWindowOf(i, j) ==
    \A k \in (i + 1)..j : calls[k].at < calls[i].cache_after.expires_at

\* The number of token requests issued by calls a .. b.
RECURSIVE RequestsIn(_, _)
RequestsIn(a, b) ==
    IF a > b THEN 0 ELSE calls[a].nreq + RequestsIn(a + 1, b)

\* C1: Token caching. In a sequence of calls that starts with an empty cache
\* and whose later calls all fall inside the cached window (now < expires_at),
\* exactly one token request is issued in total and every call returns that
\* same token; the first call made once the window has elapsed issues exactly
\* one new token request.
C1_TokenCaching ==
    /\ Len(calls) >= 1 => calls[1].nreq = 1
    /\ RequestsIn(1, Len(calls)) = Len(token_requests)
    /\ \A i \in 1..Len(calls) : \A j \in i..Len(calls) :
         (Fetched(i) /\ InWindowOf(i, j)) =>
            /\ RequestsIn(i, j) = 1
            /\ \A k \in i..j : ~calls[k].raised /\ calls[k].ret = calls[i].ret
    /\ \A i \in 1..Len(calls) : \A j \in (i + 1)..Len(calls) :
         (/\ Fetched(i)
          /\ InWindowOf(i, j - 1)
          /\ calls[j].at >= calls[i].cache_after.expires_at) =>
            calls[j].nreq = 1

\* C1 witness: a fetch, a call inside its window that reuses the token, and a
\* call after the window that issues the second request.
C1_Witness ==
    /\ Len(calls) = 3
    /\ Fetched(1)
    /\ calls[2].at < calls[1].cache_after.expires_at
    /\ calls[2].nreq = 0 /\ calls[2].ret = calls[1].ret
    /\ calls[3].at >= calls[1].cache_after.expires_at
    /\ calls[3].nreq = 1
    /\ Len(token_requests) = 2

\* Request k was answered with a new refresh_token and fetch_new_token returned.
Rotated(k) ==
    /\ token_requests[k].resp.status = 200
    /\ "refresh_token" \in token_requests[k].resp.fields
    /\ token_requests[k].returned

\* C2: Refresh persistence. When a successful token response carries a new
\* refresh_token, then once fetch_new_token has returned the persisted
\* document's body.refresh_token is the newly issued value, and the next token
\* request sends that value, never the earlier one.
C2_RefreshPersistence ==
    \A k \in 1..Len(token_requests) :
        Rotated(k) =>
            /\ token_requests[k].file_after = token_requests[k].issued
            /\ k = Len(token_requests) =>
                   token_file.refresh_token = token_requests[k].issued
            /\ k < Len(token_requests) =>
                   /\ token_requests[k + 1].sent = token_requests[k].issued
                   /\ token_requests[k + 1].sent # token_requests[k].sent

\* C2 witness: a rotating answer, a cached call in between, and a second
\* request that sends the rotated value.
C2_Witness ==
    /\ Len(token_requests) = 2
    /\ Rotated(1)
    /\ Len(calls) = 3
    /\ ~calls[2].requested
    /\ calls[3].requested
    /\ token_requests[2].sent = token_requests[1].issued

\* C7 as claimed: the cached access_token is non-empty only if the cached
\* expires_at is in the future.
C7_CredentialInvariant ==
    token_cache.access_token # None => now < token_cache.expires_at

\* C7 as amended: a non-empty cached access_token always comes with the
\* expires_at its fetch computed (fetch time + expires_in - buffer); it stays
\* in the cache after that time has passed, and get_access_token returns the
\* cached token without a request only while now < expires_at.
C7_CachedTokenUsedOnlyBeforeExpiry ==
    /\ token_cache.access_token # None =>
         \E k \in 1..Len(token_requests) :
            /\ token_requests[k].returned
            /\ token_requests[k].issued = token_cache.access_token
            /\ token_cache.expires_at =
                 token_requests[k].at + token_requests[k].resp.expires_in
                    - TOKEN_EXPIRY_BUFFER
    /\ \A i \in 1..Len(calls) :
         ~calls[i].requested =>
            /\ calls[i].cache_before.access_token # None
            /\ calls[i].at < calls[i].cache_before.expires_at
            /\ calls[i].ret = calls[i].cache_before.access_token

\* C7 witness: a token is cached, its expires_at has passed, and the call made
\* then went to the server instead of returning it.
C7_Witness ==
    /\ Len(calls) >= 2
    /\ LET c == calls[Len(calls)]
       IN  /\ c.cache_before.access_token # None
           /\ c.at >= c.cache_before.expires_at
           /\ c.requested
           /\ c.ret # c.cache_before.access_token

\* C20: Failed refresh leaves the credential untouched. Whenever
\* fetch_new_token raises (a non-200 answer, or a 200 answer without
\* access_token or without expires_in), the token cache holds the access_token
\* and the expires_at it held before the call: neither field is updated.
C20_FailedRefreshLeavesCache ==
    /\ \A i \in DOMAIN calls :
         calls[i].raised =>
            /\ calls[i].requested
            /\ calls[i].cache_after.access_token = calls[i].cache_before.access_token
            /\ calls[i].cache_after.expires_at = calls[i].cache_before.expires_at
    /\ \A k \in DOMAIN token_requests :
         (\/ token_requests[k].resp.status # 200
          \/ "access_token" \notin token_requests[k].resp.fields
          \/ "expires_in" \notin token_requests[k].resp.fields)
            <=> ~token_requests[k].returned
    /\ (calls # <<>> /\ calls[Len(calls)].raised) =>
         token_cache = calls[Len(calls)].cache_before

\* C20 witness: a token is cached; after its expiry a refresh is answered with
\* 200 and an access_token but no expires_in, and the cache still holds the
\* earlier token and expiry.
C20_Witness ==
    /\ Len(calls) >= 2
    /\ LET c == calls[Len(calls)]
           r == token_requests[Len(token_requests)]
       IN  /\ c.raised /\ c.requested
           /\ r.resp.status = 200 /\ "access_token" \in r.resp.fields
           /\ c.cache_before.access_token # None
           /\ token_cache = c.cache_before

----------------------------------------------------------------------------
(* Claims about concurrent callers, checked under SpecRace, and about a      *)
(* crash of the process, checked under SpecCrash                              *)

\* The callers whose token request is in flight, and those inside
\* fetch_new_token.
InFlight == {c \in DOMAIN callers : callers[c].pc = "inflight"}
Fetching == {c \in DOMAIN callers :
                callers[c].pc \in {"inflight", "save", "dump", "cache", "expiry"}}

\* C15: Single in-flight refresh. With concurrent callers and an empty or
\* expired cache at most one token request is in flight at any time, and no
\* two callers are refreshing with the same refresh token: the others wait
\* for the refresh in progress or reuse its result.
C15_SingleInFlightRefresh ==
    /\ Cardinality(InFlight) <= 1
    /\ \A c \in Fetching : \A d \in Fetching :
         c # d => callers[c].config.refresh_token # callers[d].config.refresh_token

\* The complete documents the file may hold: the one configured at start and
\* those with a refresh token the server has issued.
CompleteDocuments == {[refresh_token |-> n] : n \in 0..srv_seq}

\* C16: Crash-safe credential rewrite. At every point of save_token_config,
\* and so after a crash between any two of its steps, the document on disk is
\* the complete previous document or the complete new one, and no later call
\* fails for want of the refresh token.
C16_CrashSafeRewrite ==
    /\ token_file \in CompleteDocuments
    /\ \A c \in DOMAIN callers :
         callers[c].pc \in {"dump", "crashed"} =>
            token_file \in {callers[c].config,
                            [callers[c].config EXCEPT !.refresh_token = callers[c].issued]}
    /\ \A i \in DOMAIN calls : calls[i].why # "config"

----------------------------------------------------------------------------
(* Claims about the upsert store, checked under SpecUpsert *)

\* Every statement of call k was executed and the call returned normally.
AllApplied(k) ==
    /\ ulog[k].raised = "none"
    /\ \A i \in 1..Len(ulog[k].stmts) : ulog[k].stmts[i].ok

\* The rows of a table whose id is the given value.
RowsWithId(table, v) == {i \in DOMAIN table : table[i].id = v}

\* C8: Upsert idempotence. Applying upsert_data with the same record twice
\* leaves storage with exactly one row for that record's identifier, and the
\* storage after the second application equals the storage after the first.
C8_UpsertIdempotent ==
    \A k \in 1..(Len(ulog) - 1) :
        (/\ ulog[k].data.type = "dict"
         /\ ulog[k + 1].data = ulog[k].data
         /\ ulog[k + 1].entity = ulog[k].entity
         /\ AllApplied(k) /\ AllApplied(k + 1)) =>
            /\ ulog[k + 1].after = ulog[k].after
            /\ Cardinality(RowsWithId(ulog[k + 1].after, ulog[k].stmts[1].row.id)) = 1

\* The table once the accepted statements of a batch, from the i-th on, have
\* been applied to it in order.
RECURSIVE Applied(_, _, _)
Applied(table, stmts, i) ==
    IF i > Len(stmts) THEN table
    ELSE Applied(IF stmts[i].ok THEN merged(table, stmts[i].row) ELSE table,
                 stmts, i + 1)

\* Call k got as far as the loop over its records.
LoopRan(k) == ulog[k].opened /\ ulog[k].env.cursor_ok

\* C12: Record-level persistence isolation. In an upsert_data call on a batch
\* a rejected statement does not abort the batch: there is one reconciliation
\* attempt per record of the batch, in order, whichever of them fail; when
\* the commit succeeds the call does not raise and the table holds exactly the
\* effect of the accepted statements.
C12_RecordIsolation ==
    \A k \in DOMAIN ulog :
        LoopRan(k) =>
            /\ Len(ulog[k].stmts) = Len(records_of(ulog[k].data))
            /\ \A i \in DOMAIN ulog[k].stmts :
                 \A c \in DOMAIN ulog[k].stmts[i].row :
                    ulog[k].stmts[i].row[c] =
                        dict_get(records_of(ulog[k].data)[i],
                                 cfg.tableMapping[ulog[k].entity][c], Null)
            /\ ulog[k].env.commit_ok =>
                 /\ ulog[k].raised = "none"
                 /\ ulog[k].after = Applied(ulog[k].before, ulog[k].stmts, 1)

\* C12 witness: a batch of two records whose first statement was rejected; the
\* second was executed and its row committed, and the call returned.
C12_Witness ==
    \E k \in DOMAIN ulog :
        /\ LoopRan(k) /\ ulog[k].raised = "none"
        /\ Len(ulog[k].stmts) = 2
        /\ ~ulog[k].stmts[1].ok /\ ulog[k].stmts[2].ok
        /\ Len(ulog[k].after) = Len(ulog[k].before) + 1
        /\ ulog[k].after[Len(ulog[k].after)] = ulog[k].stmts[2].row

\* The mapped columns of call k's entity that are not in the exclusion set.
Writable(k) ==
    DOMAIN cfg.tableMapping[ulog[k].entity] \ {"timestamp", "rowversion", "dateCreated"}

\* The value the record of statement i of call k has for a column: that of the
\* mapped source field, null when the record lacks the field.
SourceValue(k, i, col) ==
    LET record == records_of(ulog[k].data)[i]
        field == cfg.tableMapping[ulog[k].entity][col]
    IN  IF field \in DOMAIN record THEN record[field] ELSE Null

\* The three parts of the parameter list bind a value to these columns.
ParamColumns(stmt) ==
    [source_params |-> DOMAIN stmt.params.source_params,
     update_params |-> DOMAIN stmt.params.update_params,
     insert_params |-> DOMAIN stmt.params.insert_params]

\* C14 as claimed: the column list, the update list and the parameter list of
\* every generated statement hold no excluded column and hold every other
\* mapped column, an absent source field giving null.
C14_ExcludedColumns ==
    \A k \in DOMAIN ulog : \A i \in DOMAIN ulog[k].stmts :
        LET stmt == ulog[k].stmts[i]
        IN  /\ stmt.columns = Writable(k)
            /\ stmt.updates = Writable(k)
            /\ \A part \in DOMAIN ParamColumns(stmt) :
                 ParamColumns(stmt)[part] = Writable(k)
            /\ \A c \in Writable(k) :
                 stmt.params.source_params[c] = SourceValue(k, i, c)

\* C14 as amended: no list holds an excluded column; the column list, the
\* source parameters and the insert parameters hold every other mapped column;
\* the update list and the update parameters hold every other mapped column
\* except id, which is the match key. A parameter is the record's value of the
\* mapped source field, null when the field is absent, and building the
\* statement raises nothing.
C14_ExcludedColumnsIdNotUpdated ==
    \A k \in DOMAIN ulog :
        /\ LoopRan(k) => Len(ulog[k].stmts) = Len(records_of(ulog[k].data))
        /\ \A i \in DOMAIN ulog[k].stmts :
             LET stmt == ulog[k].stmts[i]
             IN  /\ stmt.columns = Writable(k)
                 /\ stmt.updates = Writable(k) \ {"id"}
                 /\ ParamColumns(stmt) =
                      [source_params |-> Writable(k),
                       update_params |-> Writable(k) \ {"id"},
                       insert_params |-> Writable(k)]
                 /\ stmt.nparams = 2 * Cardinality(Writable(k))
                                     + Cardinality(Writable(k) \ {"id"})
                 /\ \A c \in Writable(k) :
                      /\ stmt.params.source_params[c] = SourceValue(k, i, c)
                      /\ stmt.params.insert_params[c] = SourceValue(k, i, c)
                      /\ c # "id" => stmt.params.update_params[c] = SourceValue(k, i, c)

\* C14 witness: a mapping with the three excluded columns and a record without
\* the source field of a mapped column: the statement has the two remaining
\* columns and a null parameter.
C14_Witness ==
    \E k \in DOMAIN ulog : \E i \in DOMAIN ulog[k].stmts :
        /\ {"timestamp", "rowversion", "dateCreated"}
              \subseteq DOMAIN cfg.tableMapping[ulog[k].entity]
        /\ ulog[k].stmts[i].columns = {"id", "name"}
        /\ ulog[k].stmts[i].updates = {"name"}
        /\ ulog[k].stmts[i].params.source_params.name = Null
        /\ ulog[k].stmts[i].params.source_params.id # Null

\* C17: Connection release. Every connection opened by an upsert_data call has
\* been closed when the call ends, whether it returns or raises.
C17_ConnectionRelease ==
    \A k \in DOMAIN ulog : ulog[k].opened => ulog[k].closed

----------------------------------------------------------------------------
(* Claims about the entity synchronizer and the gateway, checked under Spec.  *)
(* A "call" is an invocation of call_api: the list-discovery call is the one  *)
(* with api_override, a detail fetch the one with id=..., the single fetch    *)
(* the one with neither.                                                      *)

EventsOf(op) == {k \in DOMAIN elog : elog[k].op = op}

\* process_entity is running or has just returned for the current endpoint.
InEntity == pc \in {"list", "detail", "single", "upsert", "return"}

\* The template of the current endpoint holds the placeholder {id}.
TemplateHasId == "id" \in Placeholders(Current.api)

\* C3 as claimed: an entity whose template contains a placeholder gets the
\* list-discovery call, before any detail fetch; an entity whose template
\* contains none gets exactly one resource call and no list-discovery call.
C3_ListDetailDecision ==
    (pc = "return") =>
        IF Placeholders(Current.api) # {}
        THEN /\ EventsOf("list") # {}
             /\ \A k \in EventsOf("detail") : \E j \in EventsOf("list") : j < k
        ELSE /\ Cardinality(EventsOf("single")) = 1
             /\ EventsOf("list") = {} /\ EventsOf("detail") = {}

\* C3 as amended: the placeholder that decides is {id}. With {id} in the
\* template the list-discovery call is made, once and first, before any detail
\* fetch; without {id} (other placeholders or none) exactly one call, the
\* single fetch, is made and no list-discovery call.
C3_ListDetailDecisionOnId ==
    /\ (InEntity /\ TemplateHasId) =>
         /\ EventsOf("single") = {}
         /\ \A k \in EventsOf("detail") : elog[1].op = "list" /\ 1 < k
         /\ pc = "return" => EventsOf("list") = {1}
    /\ (InEntity /\ ~TemplateHasId) =>
         /\ EventsOf("list") = {} /\ EventsOf("detail") = {}
         /\ Cardinality(EventsOf("single")) <= 1
         /\ pc = "return" => EventsOf("single") = {1}

\* C3 witness: an endpoint with {id} returned after discovery and a detail
\* fetch, following an endpoint with only another placeholder that got its
\* single call.
C3_Witness ==
    /\ pc = "return" /\ ei = 2
    /\ TemplateHasId
    /\ EventsOf("detail") # {}
    /\ Placeholders(cfg.apiEndpoints[1].api) = {"bid"}
    /\ outcomes[1].kind = "single" /\ outcomes[1].ncalls = 1

\* The detail fetches made so far, in order.
DetailPids == [n \in 1..Cardinality(EventsOf("detail")) |->
                 elog[CHOOSE k \in EventsOf("detail") :
                        Cardinality({j \in EventsOf("detail") : j <= k}) = n].pid]

\* C4: Failure isolation per identifier. Whatever subset of the discovered
\* identifiers fails, every identifier of the list is fetched, in order, and
\* each fetch that returns a non-empty payload is handed to upsert_data; no
\* failure stops the loop or leaves process_entity.
C4_FailureIsolation ==
    (InEntity /\ TemplateHasId) =>
        /\ pc = "return" => DetailPids = ids
        /\ pc \in {"detail", "upsert"} =>
             DetailPids = SubSeq(ids, 1, IF pc = "detail" THEN ii - 1 ELSE ii)
        /\ \A k \in EventsOf("detail") :
             (elog[k].raised = "none" /\ truthy(elog[k].data)) =>
                IF k = Len(elog)
                THEN pc = "upsert" /\ response = elog[k].data
                ELSE /\ elog[k + 1].op = "upsert"
                     /\ elog[k + 1].data = elog[k].data
                     /\ elog[k + 1].pid = elog[k].pid

\* C4 witness: the first identifier's fetch failed with HTTP 500, the second
\* was fetched and upserted, and process_entity returned.
C4_Witness ==
    /\ pc = "return"
    /\ Len(ids) = 2
    /\ Len(elog) = 4
    /\ elog[2].op = "detail" /\ elog[2].raised = "http" /\ elog[2].pid = ids[1]
    /\ elog[3].op = "detail" /\ elog[3].raised = "none" /\ elog[3].pid = ids[2]
    /\ elog[4].op = "upsert" /\ elog[4].raised = "none"

\* C5 as claimed: once a token refresh has failed, no further call or upsert
\* is made for the current entity or any later one.
C5_AuthErrorAbortsRun ==
    /\ \A k \in DOMAIN elog : elog[k].raised = "token" => k = Len(elog)
    /\ (\E i \in DOMAIN outcomes : outcomes[i].authfail) => elog = <<>>

\* C5 as amended: a failed token refresh fails only the call it happens in.
\* That call issues no resource request and nothing of it is upserted; the
\* failure is caught like any other failure of the call (a failed discovery
\* skips the entity, a failed detail fetch moves on to the next identifier, a
\* failed single fetch ends the entity) and the run goes on to the next
\* identifier and the next entity, whose calls ask for a token again.
C5_AuthErrorFailsOnlyItsCall ==
    /\ \A k \in DOMAIN elog :
         elog[k].raised = "token" =>
            /\ elog[k].treq = 1 /\ elog[k].nreq = 0
            /\ k < Len(elog) => elog[k + 1].op # "upsert"
            /\ elog[k].op \in {"list", "single"} => k = Len(elog) /\ pc = "return"
            /\ (elog[k].op = "detail" /\ k = Len(elog)) =>
                 \/ pc = "detail" /\ ii = Cardinality(EventsOf("detail")) + 1
                                  /\ ii <= Len(ids)
                 \/ pc = "return" /\ Cardinality(EventsOf("detail")) = Len(ids)
    /\ pc = "done" => Len(outcomes) = Len(cfg.apiEndpoints)

\* C5 witness: the first entity met a failed token refresh, and the second
\* entity has since made a call that issued its own token request and a
\* resource request.
C5_Witness ==
    /\ Len(outcomes) = 1 /\ outcomes[1].authfail
    /\ Len(elog) >= 1
    /\ elog[1].treq = 1 /\ elog[1].nreq = 1

\* The template a call formats, and whether its kwargs leave a placeholder open.
Effective(ev) == IF ev.override # <<>> THEN ev.override ELSE Current.api
Uncovered(ev) == Placeholders(Effective(ev)) \ DOMAIN ev.kwargs # {}

\* C6 as claimed: a call_api whose path parameters leave a placeholder open
\* fails with the missing-placeholder error and issues no network request,
\* neither a resource request nor a token request.
C6_MissingParameterBeforeNetwork ==
    \A k \in DOMAIN elog :
        (elog[k].op # "upsert" /\ Uncovered(elog[k])) =>
            elog[k].raised = "KeyError" /\ elog[k].nreq = 0 /\ elog[k].treq = 0

\* C6 as amended: such a call issues no resource request. The token is fetched
\* first, so with an empty or expired cache exactly one token request goes out
\* before the placeholders are looked at (none with a valid cache); the call
\* fails with the missing-placeholder error when the token step succeeded and
\* with the token error when it did not.
C6_MissingParameterBeforeResourceRequest ==
    \A k \in DOMAIN elog :
        (elog[k].op # "upsert" /\ Uncovered(elog[k])) =>
            /\ elog[k].nreq = 0
            /\ elog[k].treq = (IF elog[k].valid_before THEN 0 ELSE 1)
            /\ elog[k].raised \in {"KeyError", "token"}
            /\ elog[k].raised = "token" => elog[k].treq = 1

\* C6 witness: a call with an open placeholder that raised KeyError after a
\* token request had gone out.
C6_Witness ==
    \E k \in DOMAIN elog :
        /\ elog[k].op # "upsert" /\ Uncovered(elog[k])
        /\ elog[k].raised = "KeyError" /\ elog[k].treq = 1

\* C9: Skipped entity. When the list-discovery call fails, returns an empty or
\* absent result, or yields no identifier, process_entity makes no detail
\* fetch and no upsert, returns without raising and without repeating the
\* discovery call, and the run continues with the next endpoint.
C9_SkippedEntity ==
    /\ \A k \in EventsOf("list") :
         /\ (elog[k].raised # "none" \/ ~truthy(elog[k].data)) => elog[k].found = <<>>
         /\ elog[k].found = <<>> =>
              /\ Len(elog) = 1
              /\ pc = "return"
              /\ ids = <<>>
              /\ db[Current.entity] = <<>>
    /\ \A i \in DOMAIN outcomes : outcomes[i].kind = "skipped" => outcomes[i].ncalls = 1
    /\ pc = "done" => Len(outcomes) = Len(cfg.apiEndpoints)
    /\ (pc = "return" /\ ei < Len(cfg.apiEndpoints)) => ENABLED MainLoop

\* C9 witness: the first entity was skipped after a failed discovery and the
\* second entity is being processed.
C9_Witness ==
    /\ Len(outcomes) = 1 /\ outcomes[1].kind = "skipped"
    /\ ei = 2 /\ Len(elog) >= 1

\* The position of an entity in the configuration.
CfgIndex(entity) ==
    CHOOSE i \in DOMAIN cfg.apiEndpoints : cfg.apiEndpoints[i].entity = entity

\* The number of detail fetches among the first k events.
DetailsUpTo(k) == Cardinality({j \in EventsOf("detail") : j <= k})

\* C11: Processing order. Entities are processed strictly in configuration
\* order: the calls of the run, in the order they were made, never go back to
\* an earlier entity (each call is for the entity of the call before it or for
\* a later one), the finished entities are the first ones of the
\* configuration in order, and every event of the entity in progress belongs
\* to the endpoint the loop is at. Within an entity the detail fetches are
\* issued in the order of the discovered identifiers, and the upsert of an
\* identifier comes directly after its fetch, before the next fetch.
C11_ProcessingOrder ==
    /\ \A i \in 1..(Len(calls) - 1) :
         CfgIndex(calls[i].entity) <= CfgIndex(calls[i + 1].entity)
    /\ Len(outcomes) = ei - 1
    /\ \A i \in DOMAIN outcomes : outcomes[i].entity = cfg.apiEndpoints[i].entity
    /\ \A k \in DOMAIN elog : elog[k].entity = cfg.apiEndpoints[ei].entity
    /\ \A k \in EventsOf("detail") :
         /\ DetailsUpTo(k) <= Len(ids)
         /\ elog[k].pid = ids[DetailsUpTo(k)]
         /\ elog[k - 1].op \in {"list", "detail", "upsert"}
    /\ \A k \in EventsOf("upsert") :
         elog[k].pid # Null =>
            /\ elog[k - 1].op = "detail"
            /\ elog[k - 1].pid = elog[k].pid
            /\ elog[k - 1].data = elog[k].data
    /\ (pc = "upsert" /\ EventsOf("detail") # {}) =>
         /\ elog[Len(elog)].op = "detail"
         /\ elog[Len(elog)].pid = ids[ii]
         /\ elog[Len(elog)].data = response

\* C11 witness: the first entity ended after its detail loop; the second has
\* fetched and upserted its first identifier and fetched its second.
C11_Witness ==
    /\ ei = 2 /\ outcomes[1].kind = "looped"
    /\ Len(elog) = 4 /\ Len(ids) = 2 /\ ids[1] # ids[2]
    /\ elog[2].op = "detail" /\ elog[2].pid = ids[1]
    /\ elog[3].op = "upsert" /\ elog[3].pid = ids[1]
    /\ elog[4].op = "detail" /\ elog[4].pid = ids[2]
    /\ calls[1].entity # calls[Len(calls)].entity

\* The current entity has no field mapping (tableMapping.get(entity) is falsy).
NoMapping(entity) == DOMAIN dict_get(cfg.tableMapping, entity, <<>>) = {}

\* C13: MappingMissing isolation. For an entity without a field mapping every
\* upsert_data call fails with the mapping error before a connection is
\* opened or a statement executed, so its table is unchanged; the failure is
\* caught in process_entity, which goes on with its remaining identifiers and
\* returns, and every later entity of the configuration is still processed.
C13_MappingMissingIsolation ==
    /\ \A k \in EventsOf("upsert") :
         NoMapping(elog[k].entity) <=> elog[k].raised = "ValueError"
    /\ \A k \in EventsOf("upsert") :
         elog[k].raised = "ValueError" =>
            /\ ~elog[k].opened /\ elog[k].nstmts = 0
            /\ db[elog[k].entity] = <<>>
            /\ k = Len(elog) =>
                 \/ pc = "detail" /\ ii = DetailsUpTo(k) + 1 /\ ii <= Len(ids)
                 \/ pc = "return"
    /\ \A e \in DOMAIN db : NoMapping(e) => db[e] = <<>>
    /\ \A i \in DOMAIN outcomes :
         /\ outcomes[i].entity = cfg.apiEndpoints[i].entity
         /\ outcomes[i].nmapfail > 0 =>
              /\ NoMapping(outcomes[i].entity)
              /\ pc = "done" \/ ei > i
    /\ Len(outcomes) = ei - 1
    /\ pc = "done" <=> ei = Len(cfg.apiEndpoints) + 1

\* C13 witness: the first entity had no mapping and a fetched payload whose
\* upsert_data raised the mapping error; the second entity has since been
\* fetched and upserted into its table.
C13_Witness ==
    /\ ei = 2 /\ NoMapping(cfg.apiEndpoints[1].entity)
    /\ outcomes[1].kind = "looped" /\ outcomes[1].nmapfail >= 1
    /\ \E k \in EventsOf("upsert") : elog[k].raised = "none" /\ elog[k].opened
    /\ db[cfg.apiEndpoints[2].entity] # <<>>

\* Event k is a fetch of the current entity that returned a non-empty payload.
Delivered(k) ==
    /\ elog[k].op \in {"detail", "single"}
    /\ elog[k].raised = "none"
    /\ truthy(elog[k].data)

\* C18: No retry. Within a run every failure is terminal for its unit: per
\* entity at most one list-discovery call and at most one single fetch, per
\* discovered identifier at most one detail fetch, per call at most one
\* resource request and one get_access_token call with at most one token
\* request, per upsert_data call at most one statement per record; what
\* failed is not issued again.
C18_NoRetry ==
    /\ Cardinality(EventsOf("list")) <= 1
    /\ Cardinality(EventsOf("single")) <= 1
    /\ Cardinality(EventsOf("detail")) <= Len(ids)
    /\ \A k \in EventsOf("detail") : elog[k].pid = ids[DetailsUpTo(k)]
    /\ \A k \in DOMAIN elog :
         /\ elog[k].nreq <= 1 /\ elog[k].treq <= 1
         /\ elog[k].raised \in {"token", "ValueError", "KeyError"} => elog[k].nreq = 0
         /\ elog[k].op = "upsert" =>
              /\ elog[k].nstmts <= Len(records_of(elog[k].data))
              /\ k > 1 /\ Delivered(k - 1)
    /\ \A i \in DOMAIN calls : calls[i].nreq <= 1
    /\ Len(token_requests) <= Len(calls)
    /\ \A i \in DOMAIN outcomes :
         outcomes[i].kind \in {"single", "skipped"} => outcomes[i].ncalls = 1

\* C18 witness: discovery found two identifiers; the fetch of the first failed
\* with HTTP 500 after one request, the fetch of the second failed in its one
\* token request, and process_entity returned after these three calls.
C18_Witness ==
    /\ pc = "return" /\ Len(ids) = 2 /\ Len(elog) = 3
    /\ elog[2].op = "detail" /\ elog[2].pid = ids[1]
    /\ elog[2].raised = "http" /\ elog[2].nreq = 1
    /\ elog[3].op = "detail" /\ elog[3].pid = ids[2]
    /\ elog[3].raised = "token" /\ elog[3].treq = 1 /\ elog[3].nreq = 0

\* The detail and single fetches of the current entity, and whether event k
\* is one that succeeded with a non-empty object or array.
Fetches == {k \in DOMAIN elog : elog[k].op \in {"detail", "single"}}
NonEmptyFetch(k) ==
    /\ elog[k].op \in {"detail", "single"}
    /\ elog[k].raised = "none"
    /\ elog[k].data.v # <<>>

\* C19: Persist step. Every detail or single fetch that succeeds with a
\* non-empty payload, array or object, is followed by exactly one upsert_data
\* call for the same entity with that payload, before the next fetch; a fetch
\* that fails or returns an empty payload is followed by none, and so is the
\* list-discovery call.
C19_PersistStep ==
    /\ \A k \in Fetches :
         IF NonEmptyFetch(k)
         THEN IF k = Len(elog)
              THEN pc = "upsert" /\ response = elog[k].data
              ELSE /\ elog[k + 1].op = "upsert"
                   /\ elog[k + 1].data = elog[k].data
                   /\ elog[k + 1].entity = elog[k].entity
                   /\ elog[k + 1].pid = elog[k].pid
         ELSE IF k = Len(elog) THEN pc # "upsert" ELSE elog[k + 1].op # "upsert"
    /\ \A k \in EventsOf("upsert") :
         /\ k > 1 /\ NonEmptyFetch(k - 1)
         /\ k < Len(elog) => elog[k + 1].op \in {"detail"}
         /\ k = Len(elog) => pc \in {"detail", "return"}
    /\ \A k \in EventsOf("list") : k = 1 /\ (Len(elog) > 1 => elog[2].op = "detail")
    /\ pc = "upsert" => (elog # <<>> /\ NonEmptyFetch(Len(elog)))

\* C19 witness: the first identifier's fetch returned an empty object and was
\* followed by no upsert; the second returned an array, which was handed to
\* upsert_data once, and process_entity returned.
C19_Witness ==
    /\ pc = "return" /\ Len(elog) = 4 /\ Len(ids) = 2
    /\ elog[2].op = "detail" /\ elog[2].raised = "none" /\ elog[2].data = Dict(<<>>)
    /\ elog[3].op = "detail" /\ elog[3].raised = "none" /\ elog[3].data.type = "list"
    /\ elog[4].op = "upsert" /\ elog[4].data = elog[3].data
    /\ elog[4].entity = elog[3].entity

----------------------------------------------------------------------------
(* Claims about identifier extraction, checked under SpecExtract *)

\* The records of a list-discovery answer as the claim reads them: the items
\* of an envelope, the elements of an array; any other object has none.
AnswerRecords ==
    IF response.type = "list" THEN response.v
    ELSE IF "items" \in DOMAIN response.v THEN response.v.items
    ELSE <<>>

ConfiguredKey ==
    IF "parentKey" \in DOMAIN cfg.apiEndpoints[ei] THEN cfg.apiEndpoints[ei].parentKey
    ELSE "id"

Carrying == {i \in DOMAIN AnswerRecords : ConfiguredKey \in DOMAIN AnswerRecords[i]}

\* C10: Identifier extraction. The discovered identifiers are exactly the
\* values of the configured identifier field (parentKey, default "id") of the
\* records that carry it, in response order; records lacking it are left out;
\* an envelope {"items": [...]} is unwrapped and an array is used directly.
C10_IdentifierExtraction ==
    pc = "extracted" =>
        /\ Len(ids) = Cardinality(Carrying)
        /\ \A i \in Carrying :
             ids[Cardinality({j \in Carrying : j <= i})] = AnswerRecords[i][ConfiguredKey]

\* C10 witness: an envelope whose first record lacks the configured field
\* "key" and whose second carries it.
C10_Witness ==
    /\ pc = "extracted"
    /\ response.type = "dict" /\ "items" \in DOMAIN response.v
    /\ ConfiguredKey = "key"
    /\ Len(AnswerRecords) = 2
    /\ Carrying = {2}
    /\ ids = <<"7">>

====
